---- MODULE Spec2Model ----
(***************************************************************************)
(* Model of the equipment rental ledger RentalContract (src/RC3.sol) and   *)
(* of its client, the React component RentalApp (src/RentalApp.jsx).       *)
(*                                                                         *)
(* One action per external function of the contract.  Each function is    *)
(* first written as its effect on the storage, the held balance and the    *)
(* outcome (revert reason or "ok", transfers, event) for given inputs; the *)
(* action applies that effect.  A transaction that reverts leaves storage  *)
(* and balance as they were.  Block time advances by Tick.                 *)
(* All quantities stay far below 2^256, so the checked uint256 additions   *)
(* and multiplications never overflow within the bounds; the checked       *)
(* subtractions of calculateUsedTime are modelled with their panic.        *)
(* The client is one action per handler, timer callback and promise        *)
(* continuation of the component, over the same ledger.                    *)
(***************************************************************************)
EXTENDS Integers, Sequences, FiniteSets, TLC

\* ---------------------------------------------------------------- bounds
MaxTime == 3
MaxDuration == 2
MaxValue == 2
MaxRadius == 2

\* ------------------------------------------------------------- addresses
ZeroAddress == "0x0"
owner == "owner"
lessor == "lessor"
Accounts == {owner, "alice"}

\* ------------------------------------------------- deployment parameters
centerLat == 55750000
centerLon == 37610000
Radii == {100}
\* the deployed <<pricePerSecond, minDeposit>>
Deployments == {<<1, 0>>, <<2, 1>>}
\* submitted positions (degrees x 10^6): a point 100 m north of the zone
\* centre and a point 101 m south-west of it
Positions == {<<centerLat + 901, centerLon>>,
              <<centerLat - 910, centerLon - 910>>}

VARIABLES
    pricePerSecond,  \* constructor parameter, > 0
    minDeposit,      \* constructor parameter
    radius,          \* constructor parameter (meters)
    activeRental,    \* the single Rental record
    balance,         \* address(this).balance
    now,             \* block.timestamp
    tx,              \* the call executed last in the current block, if any,
                     \* or the frame of the returnEquipment() in execution
    outcome,         \* its result: revert reason or "ok", transfers, event
    unpausedSecs,    \* observer: seconds the current rental spent not paused
    \* the client (src/RentalApp.jsx)
    wallet,          \* wallet.connected (window.contract is set with it)
    rental,          \* the rental state: isActive, isPaused, timer, ...
    forcedPauseReason,  \* "null" | "zone"
    contractStatus,  \* the status fetched last, "" before the first fetch
    coordinates,     \* the simulated position, degrees x 10^6
    simulateViolation,  \* the checkbox
    capturedReason,  \* forcedPauseReason as the interval callback captured it
    inflight,        \* transactions submitted and handlers awaiting them
    events,          \* RentalPaused/RentalResumed not yet delivered
    ticked,          \* what the position tick did, if it was the last step
    reading          \* the status a poll has read and not yet stored

ledgerVars == <<pricePerSecond, minDeposit, radius, activeRental, balance, now,
                tx, outcome, unpausedSecs>>

clientVars == <<wallet, rental, forcedPauseReason, contractStatus, coordinates,
                simulateViolation, capturedReason, inflight, events, ticked,
                reading>>

vars == <<ledgerVars, clientVars>>

config == <<pricePerSecond, minDeposit, radius>>

radiusSquared == radius * radius

Rental(renter, startTime, endTime, deposit, pausedDuration, lastPausedAt, isActive, isPaused) ==
    [renter |-> renter, startTime |-> startTime, endTime |-> endTime,
     deposit |-> deposit, pausedDuration |-> pausedDuration,
     lastPausedAt |-> lastPausedAt, isActive |-> isActive,
     isPaused |-> isPaused]

NoEvent == <<>>
NoTx == [op |-> "none"]

\* the function called; msg.sender, msg.value, the arguments and the
\* recipients' behaviour are parameters of the actions
Call(op) == [op |-> op]

Outcome(reason, paidLessor, paidRenter, paidOwner, event) ==
    [reason |-> reason, paidLessor |-> paidLessor, paidRenter |-> paidRenter,
     paidOwner |-> paidOwner, event |-> event]

\* a reverted transaction: nothing is transferred, nothing is emitted
Revert(reason) == Outcome(reason, 0, 0, 0, NoEvent)

\* what a call leaves behind: the Rental record, the held balance and the
\* outcome
Effect(record, held, result) ==
    [rental |-> record, balance |-> held, outcome |-> result]

\* the whole transaction is rolled back: storage and balance are untouched
Rejected(reason) == Effect(activeRental, balance, Revert(reason))

Abs(x) == IF x >= 0 THEN x ELSE -x

Min(a, b) == IF a < b THEN a ELSE b

\* ------------------------------------------------------- _withinGeoZone
metersOf(d) == (Abs(d) * 111000) \div 1000000

dist2(latE6, lonE6) ==
    metersOf(latE6 - centerLat) * metersOf(latE6 - centerLat)
      + metersOf(lonE6 - centerLon) * metersOf(lonE6 - centerLon)

_withinGeoZoneExclusive(latE6, lonE6) == dist2(latE6, lonE6) < radiusSquared

_withinGeoZone(latE6, lonE6) == dist2(latE6, lonE6) <= radiusSquared

\* ---------------------------------------------------- calculateUsedTime
baseTimeIgnoresPause(r, t) == t

baseTime(r, t) == IF r.isPaused THEN r.lastPausedAt ELSE t

\* the checked uint256 subtractions of calculateUsedTime underflow
usedTimePanics(r, t) ==
    /\ r.isActive
    /\ \/ baseTime(r, t) < r.startTime
       \/ baseTime(r, t) - r.startTime < r.pausedDuration
       \/ r.endTime < r.startTime

usedTimeOf(r, t) ==
    IF ~r.isActive THEN 0
    ELSE LET elapsed == baseTime(r, t) - r.startTime - r.pausedDuration
             maxDuration == r.endTime - r.startTime
         IN  IF elapsed > maxDuration THEN maxDuration ELSE elapsed

calculateUsedTime == usedTimeOf(activeRental, now)

\* ------------------------------------------------------------- getStatus
statusOfOverdueFirst(r, t) ==
    IF ~r.isActive THEN "Available"
    ELSE IF t > r.endTime THEN "Overdue"
    ELSE IF r.isPaused THEN "Paused"
    ELSE "Active"

statusOf(r, t) ==
    IF ~r.isActive THEN "Available"
    ELSE IF r.isPaused THEN "Paused"
    ELSE IF t > r.endTime THEN "Overdue"
    ELSE "Active"

getStatus == statusOf(activeRental, now)

\* ---------------------------------------------- the client before it acts
\* no status poll is awaiting its answer
NoReading ==
    [status |-> "none",
     record |-> Rental(ZeroAddress, 0, 0, 0, 0, 0, FALSE, FALSE)]

\* the component as mounted: the initial values of its state
mounted ==
    /\ wallet = [connected |-> FALSE]
    /\ rental = [startTime |-> "null", timer |-> 0, isActive |-> FALSE,
                 fixedDuration |-> 0, isPaused |-> FALSE]
    /\ forcedPauseReason = "null"
    /\ contractStatus = ""
    /\ coordinates = <<centerLat, centerLon>>
    /\ simulateViolation = FALSE
    /\ capturedReason = "null"
    /\ inflight = <<>>
    /\ events = <<>>
    /\ ticked = "no"
    /\ reading = NoReading

\* ------------------------------------------------------------ constructor
Init ==
    /\ mounted
    /\ \E dep \in Deployments : pricePerSecond = dep[1] /\ minDeposit = dep[2]
    /\ radius \in Radii
    /\ activeRental = Rental(ZeroAddress, 0, 0, 0, 0, 0, FALSE, FALSE)
    /\ balance = 0
    /\ now = 1
    /\ tx = NoTx
    /\ outcome = Revert("none")
    /\ unpausedSecs = 0

\* ------------------------------------------------------------------ rent
rentGuardNoActiveCheck(value, duration, latE6, lonE6) ==
    IF ~(value >= minDeposit) THEN "Deposit too low"
    ELSE IF ~(duration > 0) THEN "Invalid duration"
    ELSE IF ~_withinGeoZone(latE6, lonE6) THEN "Not within allowed zone"
    ELSE "ok"

rentGuard(value, duration, latE6, lonE6) ==
    IF activeRental.isActive THEN "Already rented"
    ELSE IF ~(value >= minDeposit) THEN "Deposit too low"
    ELSE IF ~(duration > 0) THEN "Invalid duration"
    ELSE IF ~_withinGeoZone(latE6, lonE6) THEN "Not within allowed zone"
    ELSE "ok"

rentEffectKeepsPausedDuration(sender, value, duration, latE6, lonE6) ==
    LET g == rentGuard(value, duration, latE6, lonE6)
    IN  IF g # "ok" THEN Rejected(g)
        ELSE Effect(Rental(sender, now, now + duration, value,
                           activeRental.pausedDuration, 0, TRUE,
                           activeRental.isPaused),
                    balance + value,
                    Outcome("ok", 0, 0, 0,
                            <<"RentalStarted", sender, duration, value>>))

rentEffect(sender, value, duration, latE6, lonE6) ==
    LET g == rentGuard(value, duration, latE6, lonE6)
    IN  IF g # "ok" THEN Rejected(g)
        ELSE Effect(Rental(sender, now, now + duration, value,
                           0, 0, TRUE, FALSE),
                    balance + value,
                    Outcome("ok", 0, 0, 0,
                            <<"RentalStarted", sender, duration, value>>))

\* the call `op' of `sender' with effect e is executed in the current block
Apply(op, e) ==
    /\ activeRental' = e.rental
    /\ balance' = e.balance
    /\ tx' = Call(op)
    /\ outcome' = e.outcome
    /\ unpausedSecs' = IF op \in {"rent", "returnEquipment"}
                          /\ e.outcome.reason = "ok"
                       THEN 0 ELSE unpausedSecs
    /\ UNCHANGED <<config, now, clientVars>>

rent(sender, value, duration, latE6, lonE6) ==
    Apply("rent", rentEffect(sender, value, duration, latE6, lonE6))

\* ----------------------------------------------------------- pauseRental
pauseGuardWrongReason(sender) ==
    IF ~activeRental.isActive THEN "Already paused"
    ELSE IF activeRental.isPaused THEN "Already paused"
    ELSE IF sender # activeRental.renter THEN "Not renter"
    ELSE "ok"

pauseGuard(sender) ==
    IF ~activeRental.isActive THEN "No active rental"
    ELSE IF activeRental.isPaused THEN "Already paused"
    ELSE IF sender # activeRental.renter THEN "Not renter"
    ELSE "ok"

pauseEffect(sender) ==
    LET g == pauseGuard(sender)
    IN  IF g # "ok" THEN Rejected(g)
        ELSE Effect([activeRental EXCEPT !.isPaused = TRUE,
                                         !.lastPausedAt = now],
                    balance,
                    Outcome("ok", 0, 0, 0, <<"RentalPaused", sender, now>>))

pauseRental(sender) == Apply("pauseRental", pauseEffect(sender))

\* ---------------------------------------------------------- resumeRental
resumeGuard(sender) ==
    IF ~activeRental.isActive THEN "No active rental"
    ELSE IF ~activeRental.isPaused THEN "Not paused"
    ELSE IF sender # activeRental.renter THEN "Not renter"
    ELSE "ok"

resumeEffectNoAccounting(sender) ==
    LET g == resumeGuard(sender)
    IN  IF g # "ok" THEN Rejected(g)
        ELSE Effect([activeRental EXCEPT !.isPaused = FALSE],
                    balance,
                    Outcome("ok", 0, 0, 0, <<"RentalResumed", sender, now>>))

resumeEffectOverwrites(sender) ==
    LET g == resumeGuard(sender)
    IN  IF g # "ok" THEN Rejected(g)
        ELSE IF now < activeRental.lastPausedAt THEN Rejected("Panic")
        ELSE Effect([activeRental EXCEPT
                        !.pausedDuration = now - activeRental.lastPausedAt,
                        !.isPaused = FALSE],
                    balance,
                    Outcome("ok", 0, 0, 0, <<"RentalResumed", sender, now>>))

resumeEffect(sender) ==
    LET g == resumeGuard(sender)
    IN  IF g # "ok" THEN Rejected(g)
        ELSE IF now < activeRental.lastPausedAt THEN Rejected("Panic")
        ELSE Effect([activeRental EXCEPT
                        !.pausedDuration = @ + (now - activeRental.lastPausedAt),
                        !.isPaused = FALSE],
                    balance,
                    Outcome("ok", 0, 0, 0, <<"RentalResumed", sender, now>>))

resumeRental(sender) == Apply("resumeRental", resumeEffect(sender))

\* ------------------------------------------------------- returnEquipment
returnGuardAnyCaller(sender) ==
    IF ~activeRental.isActive THEN "No active rental" ELSE "ok"

returnGuard(sender) ==
    IF ~activeRental.isActive THEN "No active rental"
    ELSE IF sender # activeRental.renter THEN "Not renter"
    ELSE "ok"

\* the settlement figures computed from the used seconds
amountDueOf(usedSeconds, deposit) ==
    IF usedSeconds * pricePerSecond > deposit THEN deposit
    ELSE usedSeconds * pricePerSecond

refundDropped(usedSeconds, deposit) == 0

refundOf(usedSeconds, deposit) ==
    IF usedSeconds * pricePerSecond > deposit THEN 0
    ELSE deposit - usedSeconds * pricePerSecond

\* address.transfer(amount) of the held balance fails when the recipient
\* refuses the payment or the balance does not cover it
transferFails(to, amount, held, refuse) == to = refuse \/ amount > held

\* the transfers of returnEquipment: amountDue to the lessor, then the
\* refund to the renter, each only when positive
settle(sender, refuse, usedSeconds, amountDue, refundAmount) ==
    IF amountDue > 0 /\ transferFails(lessor, amountDue, balance, refuse)
    THEN Rejected("Transfer failed")
    ELSE IF refundAmount > 0
            /\ transferFails(activeRental.renter, refundAmount,
                             balance - amountDue, refuse)
    THEN Rejected("Transfer failed")
    ELSE Effect([activeRental EXCEPT !.isActive = FALSE],
                balance - amountDue - refundAmount,
                Outcome("ok", amountDue, refundAmount, 0,
                        <<"RentalEnded", sender, usedSeconds, amountDue,
                          refundAmount>>))

returnEffectSwapped(sender, refuse) ==
    LET g == returnGuard(sender)
        usedSeconds == calculateUsedTime
    IN  IF g # "ok" THEN Rejected(g)
        ELSE IF usedTimePanics(activeRental, now) THEN Rejected("Panic")
        ELSE settle(sender, refuse, usedSeconds,
                    refundOf(usedSeconds, activeRental.deposit),
                    amountDueOf(usedSeconds, activeRental.deposit))

returnEffect(sender, refuse) ==
    LET g == returnGuard(sender)
        usedSeconds == calculateUsedTime
    IN  IF g # "ok" THEN Rejected(g)
        ELSE IF usedTimePanics(activeRental, now) THEN Rejected("Panic")
        ELSE settle(sender, refuse, usedSeconds,
                    amountDueOf(usedSeconds, activeRental.deposit),
                    refundOf(usedSeconds, activeRental.deposit))

returnEquipment(sender, refuse) ==
    Apply("returnEquipment", returnEffect(sender, refuse))

\* ----------------------------------------------------- emergencyWithdraw
withdrawGuardNoActiveCheck(sender) ==
    IF sender # owner THEN "Owner only" ELSE "ok"

withdrawGuard(sender) ==
    IF sender # owner THEN "Owner only"
    ELSE IF activeRental.isActive THEN "Active rental exists"
    ELSE "ok"

withdrawEffect(sender, refuse) ==
    LET g == withdrawGuard(sender)
    IN  IF g # "ok" THEN Rejected(g)
        ELSE IF transferFails(owner, balance, balance, refuse)
             THEN Rejected("Transfer failed")
        ELSE Effect(activeRental, 0,
                    Outcome("ok", 0, 0, balance,
                            <<"EmergencyWithdraw", owner, balance>>))

emergencyWithdraw(sender, refuse) ==
    Apply("emergencyWithdraw", withdrawEffect(sender, refuse))

\* --------------------------------------------------------------- receive
receiveAccepts(sender, value) ==
    Apply("receive", Effect(activeRental, balance + value,
                            Outcome("ok", 0, 0, 0, NoEvent)))

receive(sender, value) ==
    Apply("receive", Rejected("Direct payments disabled"))

\* ------------------------------------------------------------ block time
Tick ==
    /\ now < MaxTime
    /\ now' = now + 1
    /\ unpausedSecs' = IF activeRental.isActive /\ ~activeRental.isPaused
                       THEN unpausedSecs + 1 ELSE unpausedSecs
    /\ tx' = NoTx
    /\ outcome' = Revert("none")
    /\ UNCHANGED <<config, activeRental, balance, clientVars>>

\* ---------------------------------------------------------------- inputs
\* msg.value and the duration argument of rent()
Values == 0..MaxValue
Durations == 0..MaxDuration

\* the accounts that may refuse a payment of returnEquipment called by s,
\* and of emergencyWithdraw: only a recipient can make a transfer fail
ReturnRefusers(s) == {ZeroAddress, lessor, s}
WithdrawRefusers == {ZeroAddress, owner}

RentStep ==
    \E s \in Accounts, v \in Values, d \in Durations, p \in Positions :
        rent(s, v, d, p[1], p[2])

PauseStep == \E s \in Accounts : pauseRental(s)

ResumeStep == \E s \in Accounts : resumeRental(s)

ReturnStep ==
    \E s \in Accounts : \E f \in ReturnRefusers(s) : returnEquipment(s, f)

WithdrawStep ==
    \E s \in Accounts, f \in WithdrawRefusers : emergencyWithdraw(s, f)

ReceiveStep == \E s \in Accounts, v \in 1..MaxValue : receive(s, v)

Next ==
    \/ RentStep
    \/ PauseStep
    \/ ResumeStep
    \/ ReturnStep
    \/ WithdrawStep
    \/ ReceiveStep
    \/ Tick

Spec == Init /\ [][Next]_vars

\* ------------------------------------------------ the zone test on its own
\* deployments with a radius of 0..MaxRadius meters, and rent() called from
\* the positions around the zone centre whose offsets lie on either side of
\* a whole number of meters, up to one meter past the largest radius
ZoneRadii == 0..MaxRadius
ZoneMeters == MaxRadius + 1
\* the smallest offset (degrees x 10^6) that is k meters long
MeterEdge(k) == (k * 1000000 + 110999) \div 111000
ZoneOffsets ==
    LET edges == {MeterEdge(k) : k \in 1..ZoneMeters}
                   \cup {MeterEdge(k) - 1 : k \in 1..ZoneMeters}
    IN  edges \cup {-a : a \in edges}
ZonePositions ==
    {<<centerLat + a, centerLon + b>> : a, b \in ZoneOffsets}

ZoneInit ==
    /\ mounted
    /\ \E dep \in Deployments : pricePerSecond = dep[1] /\ minDeposit = dep[2]
    /\ radius \in ZoneRadii
    /\ activeRental = Rental(ZeroAddress, 0, 0, 0, 0, 0, FALSE, FALSE)
    /\ balance = 0
    /\ now = 1
    /\ tx = NoTx
    /\ outcome = Revert("none")
    /\ unpausedSecs = 0

ZoneRentStep ==
    \E d \in 1..MaxDuration, p \in ZonePositions :
        rent("alice", MaxValue, d, p[1], p[2])

ZoneNext ==
    \/ ZoneRentStep
    \/ ReturnStep
    \/ Tick

ZoneSpec == ZoneInit /\ [][ZoneNext]_vars

\* ----------------------------------- returnEquipment, statement by statement
\* The execution of one returnEquipment() call: the requires and the
\* figures, the deactivation, then the two transfers.  A transfer hands
\* control to the recipient, which may call back into the contract before
\* it accepts or refuses the payment.  While the call executes, tx is its
\* frame: the position (pc), the figures computed and what was paid so far.
Frame(sender, pc, usedSeconds, amountDue, refundAmount, paid) ==
    [op |-> "returnEquipment", sender |-> sender, pc |-> pc,
     usedSeconds |-> usedSeconds, amountDue |-> amountDue,
     refundAmount |-> refundAmount, paid |-> paid, reentered |-> "none"]

Executing == "pc" \in DOMAIN tx

\* activeRental.isActive = false, before the transfers
deactivatedAfterTransfers(r) == r

deactivated(r) == [r EXCEPT !.isActive = FALSE]

\* the requires, the figures and the deactivation
returnBegin(sender) ==
    /\ ~Executing
    /\ LET g == returnGuard(sender)
           used == calculateUsedTime
       IN  IF g # "ok" THEN Apply("returnEquipment", Rejected(g))
           ELSE IF usedTimePanics(activeRental, now)
                THEN Apply("returnEquipment", Rejected("Panic"))
           ELSE /\ activeRental' = deactivated(activeRental)
                /\ tx' = Frame(sender, "lessor", used,
                               amountDueOf(used, activeRental.deposit),
                               refundOf(used, activeRental.deposit), 0)
                /\ outcome' = Revert("pending")
                /\ UNCHANGED <<config, balance, now, unpausedSecs, clientVars>>

\* the call ends: RentalEnded is emitted
returnEnd ==
    /\ tx' = Call("returnEquipment")
    /\ outcome' = Outcome("ok", tx.amountDue, tx.refundAmount, 0,
                          <<"RentalEnded", tx.sender, tx.usedSeconds,
                            tx.amountDue, tx.refundAmount>>)
    /\ unpausedSecs' = 0

\* a failed transfer reverts the whole call: storage and balance are as
\* they were when it was entered
returnReverts ==
    /\ activeRental' = [activeRental EXCEPT !.isActive = TRUE]
    /\ balance' = balance + tx.paid
    /\ tx' = Call("returnEquipment")
    /\ outcome' = Revert("Transfer failed")
    /\ UNCHANGED unpausedSecs

\* the statement after the transfer at pc
afterTransfer ==
    IF tx.pc \in {"lessor", "inLessor"}
    THEN /\ tx' = [tx EXCEPT !.pc = "renter", !.reentered = "none"]
         /\ outcome' = Revert("pending")
         /\ UNCHANGED unpausedSecs
    ELSE returnEnd

\* payable(to).transfer(amount): skipped when the amount is 0, else the
\* value moves and the recipient's code runs
transfer ==
    /\ Executing
    /\ tx.pc \in {"lessor", "renter"}
    /\ LET amount == IF tx.pc = "lessor" THEN tx.amountDue
                     ELSE tx.refundAmount
       IN  IF amount = 0
           THEN afterTransfer /\ UNCHANGED <<activeRental, balance>>
           ELSE IF amount > balance THEN returnReverts
           ELSE /\ balance' = balance - amount
                /\ tx' = [tx EXCEPT !.pc = IF tx.pc = "lessor" THEN "inLessor"
                                           ELSE "inRenter",
                                    !.paid = @ + amount]
                /\ UNCHANGED <<activeRental, outcome, unpausedSecs>>
    /\ UNCHANGED <<config, now, clientVars>>

\* the account whose code runs during the transfer
recipient == IF tx.pc = "inLessor" THEN lessor ELSE activeRental.renter

\* a call the recipient makes back into the contract during the transfer;
\* transfer() forwards only the gas stipend, under which a call that gets
\* as far as writing storage or sending value runs out of gas
nestedEffect(op) ==
    CASE op = "returnEquipment" -> returnEffect(recipient, ZeroAddress)
      [] op = "pauseRental" -> pauseEffect(recipient)
      [] op = "resumeRental" -> resumeEffect(recipient)
      [] op = "emergencyWithdraw" ->
           IF withdrawGuard(recipient) # "ok"
           THEN Rejected(withdrawGuard(recipient))
           ELSE Rejected("Out of gas")
      [] OTHER -> Rejected("Out of gas")

reenter(op) ==
    /\ Executing
    /\ tx.pc \in {"inLessor", "inRenter"}
    /\ LET e == nestedEffect(op)
       IN  /\ activeRental' = e.rental
           /\ balance' = e.balance
           /\ outcome' = e.outcome
           /\ tx' = [tx EXCEPT !.reentered = op]
    /\ UNCHANGED <<config, now, unpausedSecs, clientVars>>

\* the recipient accepts the payment, or refuses it
recipientReturns(accepts) ==
    /\ Executing
    /\ tx.pc \in {"inLessor", "inRenter"}
    /\ IF accepts
       THEN afterTransfer /\ UNCHANGED <<activeRental, balance>>
       ELSE returnReverts
    /\ UNCHANGED <<config, now, clientVars>>

NestedCalls ==
    {"rent", "pauseRental", "resumeRental", "returnEquipment",
     "emergencyWithdraw"}

ReturnBeginStep == \E s \in Accounts : returnBegin(s)

ReenterStep == \E op \in NestedCalls : reenter(op)

RecipientStep == \E accepts \in BOOLEAN : recipientReturns(accepts)

\* between two calls: the other functions, and block time
BetweenCalls ==
    /\ ~Executing
    /\ RentStep \/ PauseStep \/ ResumeStep \/ WithdrawStep \/ Tick

ReturnNext ==
    \/ ReturnBeginStep
    \/ transfer
    \/ ReenterStep
    \/ RecipientStep
    \/ BetweenCalls

ReturnSpec == Init /\ [][ReturnNext]_vars

TypeOK ==
    /\ activeRental.isActive \in BOOLEAN
    /\ balance \in Nat
    /\ now \in 1..MaxTime

\* ================================================================ client
\* The React component RentalApp (src/RentalApp.jsx) of one renter, and the
\* ledger it talks to.  Each handler, timer callback and promise
\* continuation is one action; a transaction the client submits waits in
\* `inflight' until the ledger executes it (in the order of submission) or
\* it is rejected on its way.
renter == "alice"

\* the transactions the model lets be unsettled at once, and the events it
\* lets be undelivered at once
MaxInFlight == 2
MaxEvents == 1

\* the simulated walk: the noise moves the position by less than 0.0005
\* degrees a tick and the fifth step jumps out of the zone; the model walks
\* along the latitude in steps of NoiseStep (44 m) and stays within one
\* step of the centre, in a zone of ClientRadius meters
ClientRadius == 40
NoiseStep == 400
Noise == {-NoiseStep, 0, NoiseStep}
center == <<centerLat, centerLon>>

Walk(from, noise) ==
    LET lat == from[1] + noise
    IN  IF lat < centerLat \/ lat > centerLat + NoiseStep
        THEN from ELSE <<lat, from[2]>>

\* the zone test of the client: meters are not truncated, so the
\* comparison is made on millimeters (x * 111000 / 10^6 = x * 111 / 1000)
outsideZone(position) ==
    LET metersLat == Abs(position[1] - centerLat) * 111
        metersLon == Abs(position[2] - centerLon) * 111
    IN  metersLat * metersLat + metersLon * metersLon
          > (radius * 1000) * (radius * 1000)

\* fetchAdjustedStatus(): activeRental() and calculateUsedTime() read from
\* the ledger
adjustedStatusOf(r, t) ==
    IF ~r.isActive THEN "Available"
    ELSE IF r.isPaused THEN "Paused"
    ELSE IF usedTimeOf(r, t) >= r.endTime - r.startTime THEN "Overdue"
    ELSE "Active"

fetchAdjustedStatus == adjustedStatusOf(activeRental, now)

\* the component renders with the new state; the effect of the position
\* tick runs again when one of rental.isActive, rental.isPaused,
\* contractStatus, simulateViolation changed, and its interval callback
\* then captures forcedPauseReason as it is in that render; there is no
\* interval while the rental is inactive or paused
RenderKeepsFirstCapture(r, reason, status, simulate) ==
    /\ rental' = r
    /\ forcedPauseReason' = reason
    /\ contractStatus' = status
    /\ simulateViolation' = simulate
    /\ capturedReason' = capturedReason

Render(r, reason, status, simulate) ==
    /\ rental' = r
    /\ forcedPauseReason' = reason
    /\ contractStatus' = status
    /\ simulateViolation' = simulate
    /\ capturedReason' =
         IF ~r.isActive \/ r.isPaused THEN "null"
         ELSE IF <<r.isActive, r.isPaused, status, simulate>>
                   # <<rental.isActive, rental.isPaused, contractStatus,
                       simulateViolation>>
              THEN reason
         ELSE capturedReason

Sent(kind, origin, duration, position) ==
    [kind |-> kind, origin |-> origin, stage |-> "sent",
     duration |-> duration, position |-> position]

Remove(seq, i) == SubSeq(seq, 1, i - 1) \o SubSeq(seq, i + 1, Len(seq))

Room == Len(inflight) < MaxInFlight

\* ------------------------------------------------------- connectWallet
connectWallet ==
    /\ ~wallet.connected
    /\ wallet' = [connected |-> TRUE]
    /\ coordinates' = center
    /\ Render(rental, forcedPauseReason, fetchAdjustedStatus,
              simulateViolation)
    /\ ticked' = "no"
    /\ UNCHANGED <<ledgerVars, reading, inflight, events>>

\* the "simulate a zone violation" checkbox; switched off, the position is
\* put back to the zone centre
setSimulateViolation ==
    /\ Render(rental, forcedPauseReason, contractStatus, ~simulateViolation)
    /\ coordinates' = IF simulateViolation THEN center ELSE coordinates
    /\ ticked' = "no"
    /\ UNCHANGED <<ledgerVars, reading, wallet, inflight, events>>

\* ---------------------------------------------------------- startRental
\* the "rent" button with a valid duration entered; outside the zone the
\* handler only shows a message
startRental(duration) ==
    /\ wallet.connected
    /\ ~outsideZone(coordinates)
    /\ Room
    /\ inflight' = Append(inflight, Sent("rent", "click", duration, coordinates))
    /\ ticked' = "no"
    /\ UNCHANGED <<ledgerVars, reading, wallet, rental, forcedPauseReason,
                   contractStatus, coordinates, simulateViolation,
                   capturedReason, events>>

\* ------------------------------------------------------ returnEquipment
\* the "finish" button of the tracking panel
returnClick ==
    /\ rental.startTime # "null"
    /\ Room
    /\ inflight' = Append(inflight, Sent("returnEquipment", "click", 0, center))
    /\ ticked' = "no"
    /\ UNCHANGED <<ledgerVars, reading, wallet, rental, forcedPauseReason,
                   contractStatus, coordinates, simulateViolation,
                   capturedReason, events>>

\* ---------------------------------------------------------- handlePause
\* the pause/resume button of the tracking panel, disabled during a forced
\* pause: the flag is set at once and the transaction submitted
handlePause ==
    /\ rental.startTime # "null"
    /\ forcedPauseReason # "zone"
    /\ Room
    /\ Render([rental EXCEPT !.isPaused = ~rental.isPaused],
              forcedPauseReason, contractStatus, simulateViolation)
    /\ inflight' = Append(inflight,
                          Sent(IF rental.isPaused THEN "resumeRental"
                               ELSE "pauseRental", "click", 0, center))
    /\ ticked' = "no"
    /\ UNCHANGED <<ledgerVars, reading, wallet, coordinates, events>>

\* the catch block of handlePause: the flag is inverted
handlePauseCatch(i) ==
    /\ Render([rental EXCEPT !.isPaused = ~rental.isPaused],
              forcedPauseReason, contractStatus, simulateViolation)
    /\ inflight' = Remove(inflight, i)
    /\ ticked' = "no"

\* after the confirmation handlePause fetches the status ...
handlePauseStatus(i, ok) ==
    /\ inflight[i].stage = "confirmed"
    /\ IF ok
       THEN /\ Render(rental, forcedPauseReason, fetchAdjustedStatus,
                      simulateViolation)
            /\ inflight' = [inflight EXCEPT ![i].stage = "fetched"]
            /\ ticked' = "no"
       ELSE handlePauseCatch(i)
    /\ UNCHANGED <<ledgerVars, reading, wallet, coordinates, events>>

\* ... and then the record, whose isPaused it takes over
handlePauseRecord(i, ok) ==
    /\ inflight[i].stage = "fetched"
    /\ IF ok
       THEN /\ Render([rental EXCEPT !.isPaused = activeRental.isPaused],
                      forcedPauseReason, contractStatus, simulateViolation)
            /\ inflight' = Remove(inflight, i)
            /\ ticked' = "no"
       ELSE handlePauseCatch(i)
    /\ UNCHANGED <<ledgerVars, reading, wallet, coordinates, events>>

\* -------------------------------------------------------- position tick
\* the first updater of the callback: the elapsed-time counter
tickTimerWhateverStatus(prev, status) ==
    IF prev.isPaused THEN prev ELSE [prev EXCEPT !.timer = @ + 1]

tickTimer(prev, status) ==
    IF prev.isPaused \/ status # "Active" THEN prev
    ELSE [prev EXCEPT !.timer = @ + 1]

\* the interval callback, every second while the rental is active and not
\* paused locally
positionTick ==
    /\ rental.isActive
    /\ ~rental.isPaused
    /\ \E noise \in Noise :
         LET timed == tickTimer(rental, contractStatus)
             frozen == rental.isPaused \/ capturedReason = "zone"
             position == IF frozen THEN coordinates
                         ELSE IF simulateViolation
                              THEN Walk(coordinates, noise)
                         ELSE center
             pauses == /\ ~frozen
                       /\ outsideZone(position)
                       /\ contractStatus = "Active"
                       /\ capturedReason = "null"
             resumes == /\ ~frozen
                        /\ ~pauses
                        /\ ~outsideZone(position)
                        /\ capturedReason = "zone"
                        /\ rental.isPaused
                        /\ contractStatus = "Paused"
             flagged == IF pauses THEN [timed EXCEPT !.isPaused = TRUE]
                        ELSE IF resumes THEN [timed EXCEPT !.isPaused = FALSE]
                        ELSE timed
             finished == IF flagged.fixedDuration # 0
                            /\ flagged.timer >= flagged.fixedDuration
                         THEN [flagged EXCEPT !.isActive = FALSE]
                         ELSE flagged
         IN  /\ (pauses \/ resumes) => Room
             /\ coordinates' = position
             /\ Render(finished,
                       IF pauses THEN "zone"
                       ELSE IF resumes THEN "null" ELSE forcedPauseReason,
                       contractStatus, simulateViolation)
             /\ inflight' =
                  IF pauses
                  THEN Append(inflight, Sent("pauseRental", "tick", 0, center))
                  ELSE IF resumes
                  THEN Append(inflight, Sent("resumeRental", "tick", 0, center))
                  ELSE inflight
             /\ ticked' = IF frozen THEN "frozen"
                          ELSE IF pauses THEN "pauseRental"
                          ELSE IF resumes THEN "resumeRental"
                          ELSE "no"
    /\ UNCHANGED <<ledgerVars, reading, wallet, events>>

\* the "return to zone" button, shown during a forced pause
returnToZone ==
    /\ rental.startTime # "null"
    /\ forcedPauseReason = "zone"
    /\ coordinates' = center
    /\ Render(rental, "null", contractStatus, simulateViolation)
    /\ ticked' = "no"
    /\ UNCHANGED <<ledgerVars, reading, wallet, inflight, events>>

\* ------------------------------------------- the submitted transactions
\* what the ledger does with the transaction t of the renter; the deposit
\* sent with rent() is pricePerSecond x duration
effectOf(t, refuse) ==
    CASE t.kind = "rent" ->
           rentEffect(renter, pricePerSecond * t.duration, t.duration,
                      t.position[1], t.position[2])
      [] t.kind = "pauseRental" -> pauseEffect(renter)
      [] t.kind = "resumeRental" -> resumeEffect(renter)
      [] OTHER -> returnEffect(renter, refuse)

\* the continuation of the handler of inflight[i] once its transaction is
\* confirmed (ok) or has failed; usedSeconds is taken from RentalEnded
Continue(i, ok, usedSeconds) ==
    LET t == inflight[i]
    IN  CASE t.kind = "rent" ->
               /\ Render(IF ok
                         THEN [rental EXCEPT !.startTime = "set",
                                             !.fixedDuration = t.duration,
                                             !.isActive = TRUE,
                                             !.isPaused = FALSE]
                         ELSE rental,
                         forcedPauseReason,
                         IF ok THEN "Active" ELSE contractStatus,
                         simulateViolation)
               /\ inflight' = Remove(inflight, i)
               /\ ticked' = "no"
          [] t.kind = "returnEquipment" ->
               /\ Render(IF ok
                         THEN [rental EXCEPT !.isActive = FALSE,
                                             !.startTime = "null",
                                             !.timer = usedSeconds]
                         ELSE rental,
                         forcedPauseReason,
                         IF ok THEN "Available" ELSE contractStatus,
                         simulateViolation)
               /\ inflight' = Remove(inflight, i)
               /\ ticked' = "no"
          [] t.origin = "tick" ->
               \* .catch() of the automatic pause and resume only logs
               /\ UNCHANGED <<rental, forcedPauseReason, contractStatus,
                              simulateViolation, capturedReason>>
               /\ inflight' = Remove(inflight, i)
               /\ ticked' = "no"
          [] OTHER ->
               IF ok
               THEN /\ UNCHANGED <<rental, forcedPauseReason, contractStatus,
                                   simulateViolation, capturedReason>>
                    /\ inflight' = [inflight EXCEPT ![i].stage = "confirmed"]
                    /\ ticked' = "no"
               ELSE handlePauseCatch(i)

\* the transactions of one account are executed in the order of submission
FirstSent ==
    CHOOSE i \in DOMAIN inflight :
        /\ inflight[i].stage = "sent"
        /\ \A j \in 1..(i - 1) : inflight[j].stage # "sent"

\* the ledger executes the oldest submitted transaction; a pause or resume
\* that succeeds emits the event the client listens to
mine(refuse) ==
    /\ \E i \in DOMAIN inflight : inflight[i].stage = "sent"
    /\ LET i == FirstSent
           t == inflight[i]
           e == effectOf(t, refuse)
           ok == e.outcome.reason = "ok"
           emits == ok /\ t.kind \in {"pauseRental", "resumeRental"}
       IN  /\ emits => Len(events) < MaxEvents
           /\ activeRental' = e.rental
           /\ balance' = e.balance
           /\ Continue(i, ok, IF ok /\ t.kind = "returnEquipment"
                              THEN e.outcome.event[3] ELSE 0)
           /\ events' = IF emits THEN Append(events, e.outcome.event[1])
                        ELSE events
    /\ UNCHANGED <<config, now, tx, outcome, unpausedSecs, wallet,
                   coordinates, reading>>

\* a submitted transaction never reaches the ledger: rejected in the
\* wallet, or the connection is lost
reject(i) ==
    /\ inflight[i].stage = "sent"
    /\ Continue(i, FALSE, 0)
    /\ UNCHANGED <<ledgerVars, reading, wallet, coordinates, events>>

\* ----------------------------------------- RentalPaused / RentalResumed
\* the listener sets the flag and fetches the status (the fetch may fail)
onRentalEvent(fetched) ==
    /\ events # <<>>
    /\ Render([rental EXCEPT !.isPaused = (Head(events) = "RentalPaused")],
              forcedPauseReason,
              IF fetched THEN fetchAdjustedStatus ELSE contractStatus,
              simulateViolation)
    /\ events' = Tail(events)
    /\ ticked' = "no"
    /\ UNCHANGED <<ledgerVars, reading, wallet, coordinates, inflight>>

\* ----------------------------------------------------------- status poll
\* every 3 seconds while the wallet is connected the status is fetched
\* and, unless the fetch fails, stored
pollTick(ok) ==
    /\ wallet.connected
    /\ Render(rental, forcedPauseReason,
              IF ok THEN fetchAdjustedStatus ELSE contractStatus,
              simulateViolation)
    /\ ticked' = "no"
    /\ UNCHANGED <<ledgerVars, reading, wallet, coordinates, inflight, events>>

\* ------------------------------------------------------------ block time
blockTime ==
    /\ now < MaxTime
    /\ now' = now + 1
    /\ ticked' = "no"
    /\ UNCHANGED <<config, activeRental, balance, tx, outcome, unpausedSecs,
                   wallet, rental, forcedPauseReason, contractStatus,
                   coordinates, simulateViolation, capturedReason, inflight,
                   events, reading>>

\* ------------------------------------------------- the client's behaviour
ClientInit ==
    /\ mounted
    /\ pricePerSecond = 1
    /\ minDeposit = 0
    /\ radius = ClientRadius
    /\ activeRental = Rental(ZeroAddress, 0, 0, 0, 0, 0, FALSE, FALSE)
    /\ balance = 0
    /\ now = 1
    /\ tx = NoTx
    /\ outcome = Revert("none")
    /\ unpausedSecs = 0

StartRentalStep == \E d \in {MaxDuration} : startRental(d)

HandlePauseReply ==
    \E i \in DOMAIN inflight, ok \in BOOLEAN :
        /\ inflight[i].origin = "click"
        /\ handlePauseStatus(i, ok) \/ handlePauseRecord(i, ok)

MineStep == \E refuse \in {ZeroAddress, lessor} : mine(refuse)

RejectStep == \E i \in DOMAIN inflight : reject(i)

EventStep == \E fetched \in BOOLEAN : onRentalEvent(fetched)

PollStep == \E ok \in BOOLEAN : pollTick(ok)

ClientNext ==
    \/ connectWallet
    \/ setSimulateViolation
    \/ StartRentalStep
    \/ returnClick
    \/ handlePause
    \/ HandlePauseReply
    \/ positionTick
    \/ returnToZone
    \/ MineStep
    \/ RejectStep
    \/ EventStep
    \/ PollStep
    \/ blockTime

ClientSpec == ClientInit /\ [][ClientNext]_vars

\* the timers keep firing, submitted transactions are executed, events are
\* delivered and fetches are answered; nothing makes the user click
FairClientSpec ==
    /\ ClientSpec
    /\ WF_vars(positionTick)
    /\ WF_vars(pollTick(TRUE))
    /\ WF_vars(mine(ZeroAddress))
    /\ WF_vars(onRentalEvent(TRUE))
    /\ WF_vars(\E i \in DOMAIN inflight :
                 /\ inflight[i].origin = "click"
                 /\ handlePauseStatus(i, TRUE) \/ handlePauseRecord(i, TRUE))

\* ------------------------------------------- the status poll in two steps
\* fetchAdjustedStatus() reads the ledger ...
pollRead ==
    /\ wallet.connected
    /\ reading = NoReading
    /\ reading' = [status |-> fetchAdjustedStatus, record |-> activeRental]
    /\ ticked' = "no"
    /\ UNCHANGED <<ledgerVars, wallet, rental, forcedPauseReason,
                   contractStatus, coordinates, simulateViolation,
                   capturedReason, inflight, events>>

\* ... and .then(setContractStatus) stores what was read when the answer
\* arrives
pollStore ==
    /\ reading # NoReading
    /\ Render(rental, forcedPauseReason, reading.status, simulateViolation)
    /\ reading' = NoReading
    /\ ticked' = "no"
    /\ UNCHANGED <<ledgerVars, wallet, coordinates, inflight, events>>

\* a renter who rents, pauses, resumes and returns while the poll runs
StaleNext ==
    \/ connectWallet
    \/ StartRentalStep
    \/ returnClick
    \/ handlePause
    \/ HandlePauseReply
    \/ MineStep
    \/ EventStep
    \/ pollRead
    \/ pollStore

StaleSpec == ClientInit /\ [][StaleNext]_vars

\* ------------------------------------------------- the disconnect button
\* only the wallet state is reset; window.contract, the rental state and
\* the interval of the position tick are left as they are
disconnect ==
    /\ wallet.connected
    /\ wallet' = [connected |-> FALSE]
    /\ Render(rental, forcedPauseReason, contractStatus, simulateViolation)
    /\ ticked' = "no"
    /\ UNCHANGED <<ledgerVars, reading, coordinates, inflight, events>>

\* a renter who connects, rents, moves and disconnects
DisconnectNext ==
    \/ connectWallet
    \/ disconnect
    \/ setSimulateViolation
    \/ StartRentalStep
    \/ positionTick
    \/ MineStep
    \/ RejectStep
    \/ EventStep
    \/ PollStep
    \/ blockTime

DisconnectSpec == ClientInit /\ [][DisconnectNext]_vars

\* ------------------------------------------------------------ properties
Succeeded(op) == tx.op = op /\ outcome.reason = "ok"

\* a rejected call changes neither the record nor the balance and pays nobody
Untouched(e) ==
    /\ e.rental = activeRental
    /\ e.balance = balance
    /\ e.outcome = Revert(e.outcome.reason)

\* C1: a rent() made while a rental is active is rejected with
\* "Already rented", whatever its arguments and caller, and leaves the
\* rental record (and the held balance) unchanged.
C1_RentWhileActiveRejected ==
    activeRental.isActive
      => \A s \in Accounts, v \in Values, d \in Durations, p \in Positions :
            LET e == rentEffect(s, v, d, p[1], p[2])
            IN  e.outcome.reason = "Already rented" /\ Untouched(e)

C1_Witness ==
    /\ tx.op = "rent"
    /\ outcome.reason = "Already rented"
    /\ activeRental.isActive
    /\ activeRental.isPaused

\* C2: on every successful returnEquipment() the amount paid to the lessor
\* plus the amount refunded to the renter equals the stored deposit, these
\* are the figures of the RentalEnded event, and they leave the held balance.
C2_SettlementSumsToDeposit ==
    \A s \in Accounts : \A f \in ReturnRefusers(s) :
        LET e == returnEffect(s, f)
        IN  e.outcome.reason = "ok"
              => /\ e.outcome.paidLessor + e.outcome.paidRenter
                      = activeRental.deposit
                 /\ e.outcome.event[1] = "RentalEnded"
                 /\ e.outcome.event[4] = e.outcome.paidLessor
                 /\ e.outcome.event[5] = e.outcome.paidRenter
                 /\ e.balance = balance - activeRental.deposit

C2_Witness ==
    /\ Succeeded("returnEquipment")
    /\ activeRental.pausedDuration > 0
    /\ outcome.paidLessor > 0
    /\ outcome.paidRenter > 0

\* C3: returnEquipment() charges usedSeconds * pricePerSecond, clamped to the
\* deposit: when the product exceeds the deposit the lessor gets the deposit
\* and the refund is 0, otherwise the refund is the rest of the deposit.
C3_ClampedToDeposit ==
    \A s \in Accounts : \A f \in ReturnRefusers(s) :
        LET e == returnEffect(s, f)
            used == calculateUsedTime
            cost == used * pricePerSecond
            deposit == activeRental.deposit
        IN  e.outcome.reason = "ok"
              => /\ e.outcome.event[3] = used
                 /\ e.outcome.paidLessor <= deposit
                 /\ cost > deposit
                      => /\ e.outcome.paidLessor = deposit
                         /\ e.outcome.paidRenter = 0
                 /\ cost <= deposit
                      => /\ e.outcome.paidLessor = cost
                         /\ e.outcome.paidRenter = deposit - cost

C3_Witness ==
    /\ Succeeded("returnEquipment")
    /\ outcome.event[3] * pricePerSecond > activeRental.deposit
    /\ activeRental.deposit > 0
    /\ outcome.paidRenter = 0

\* the guard of rent() named by a revert reason is false before the call
RentGuardFailed(reason, value, duration, latE6, lonE6) ==
    CASE reason = "Already rented" -> activeRental.isActive
      [] reason = "Deposit too low" -> value < minDeposit
      [] reason = "Invalid duration" -> duration = 0
      [] reason = "Not within allowed zone" -> ~_withinGeoZone(latE6, lonE6)
      [] OTHER -> FALSE

\* the guard of the other calls named by a revert reason is false before
\* the call; a failed transfer or a panic is no guard and names none
GuardFailed(reason, sender) ==
    CASE reason = "No active rental" -> ~activeRental.isActive
      [] reason = "Already paused" -> activeRental.isPaused
      [] reason = "Not paused" -> ~activeRental.isPaused
      [] reason = "Not renter" -> sender # activeRental.renter
      [] reason = "Owner only" -> sender # owner
      [] reason = "Active rental exists" -> activeRental.isActive
      [] OTHER -> reason \in {"Transfer failed", "Panic"}

RejectedAtomically(e, sender) ==
    e.outcome.reason # "ok"
      => Untouched(e) /\ GuardFailed(e.outcome.reason, sender)

\* C4: a rejected rent, pauseRental, resumeRental, returnEquipment or
\* emergencyWithdraw leaves the rental record and the held balance as they
\* were, pays nobody, and a guard's reason is reported only when that guard
\* failed; a rent() from outside the zone is rejected and creates no rental.
C4_RejectionIsAtomic ==
    /\ \A s \in Accounts, v \in Values, d \in Durations, p \in Positions :
         LET e == rentEffect(s, v, d, p[1], p[2])
         IN  /\ e.outcome.reason # "ok"
               => /\ Untouched(e)
                  /\ RentGuardFailed(e.outcome.reason, v, d, p[1], p[2])
             /\ ~_withinGeoZone(p[1], p[2]) => e.outcome.reason # "ok"
    /\ \A s \in Accounts :
         /\ RejectedAtomically(pauseEffect(s), s)
         /\ RejectedAtomically(resumeEffect(s), s)
         /\ \A f \in ReturnRefusers(s) : RejectedAtomically(returnEffect(s, f), s)
         /\ \A f \in WithdrawRefusers : RejectedAtomically(withdrawEffect(s, f), s)

C4_Witness ==
    /\ tx.op = "rent"
    /\ outcome.reason = "Not within allowed zone"
    /\ ~activeRental.isActive
    /\ balance = 0

\* C5: in every reachable state of the rental record isPaused implies
\* isActive.
C5_PausedImpliesActive == activeRental.isPaused => activeRental.isActive

\* C6: for an active rental calculateUsedTime() is the number of seconds
\* since startTime spent not paused, capped at endTime - startTime and never
\* negative; never paused and at or after endTime it is endTime - startTime.
C6_UsedTimeIsUnpausedTime ==
    activeRental.isActive
      => /\ ~usedTimePanics(activeRental, now)
         /\ calculateUsedTime >= 0
         /\ calculateUsedTime
              = Min(unpausedSecs, activeRental.endTime - activeRental.startTime)
         /\ (activeRental.lastPausedAt = 0 /\ now >= activeRental.endTime)
              => calculateUsedTime
                   = activeRental.endTime - activeRental.startTime

C6_Witness ==
    /\ activeRental.isActive
    /\ ~activeRental.isPaused
    /\ activeRental.pausedDuration > 0
    /\ now > activeRental.endTime
    /\ calculateUsedTime = activeRental.endTime - activeRental.startTime

\* C7: during one active rental calculateUsedTime() never decreases, stays
\* constant in every step taken while the rental is paused (the resume
\* included) and does not change on a pause.
C7_UsedTimeMonotone ==
    [][(activeRental.isActive /\ activeRental'.isActive)
         => /\ usedTimeOf(activeRental', now') >= usedTimeOf(activeRental, now)
            /\ activeRental.isPaused
                 => usedTimeOf(activeRental', now') = usedTimeOf(activeRental, now)
            /\ tx'.op \in {"pauseRental", "resumeRental"}
                 => usedTimeOf(activeRental', now') = usedTimeOf(activeRental, now)
       ]_vars

C7_Witness ==
    /\ Succeeded("resumeRental")
    /\ now > activeRental.lastPausedAt
    /\ calculateUsedTime > 0
    /\ calculateUsedTime < activeRental.endTime - activeRental.startTime

RentAccepted(value, duration, latE6, lonE6) ==
    /\ ~activeRental.isActive
    /\ duration > 0
    /\ value >= minDeposit
    /\ _withinGeoZone(latE6, lonE6)

PausedDurationAccounting ==
    /\ (activeRental.isActive /\ activeRental'.isActive)
         => activeRental'.pausedDuration >= activeRental.pausedDuration
    /\ (tx'.op = "pauseRental" /\ outcome'.reason = "ok")
         => activeRental'.pausedDuration = activeRental.pausedDuration
    /\ (tx'.op = "resumeRental" /\ outcome'.reason = "ok")
         => /\ activeRental'.pausedDuration
                 = activeRental.pausedDuration + (now - activeRental.lastPausedAt)
            /\ activeRental.isPaused

\* C9 as stated: pausedDuration never decreases while active, a pause leaves
\* it unchanged, a resume adds now - lastPausedAt, and after the resume the
\* status is Active again.
C9_Original ==
    [][/\ PausedDurationAccounting
       /\ (tx'.op = "resumeRental" /\ outcome'.reason = "ok")
            => statusOf(activeRental', now') = "Active"]_vars

\* C9 amended: pausedDuration never decreases while active, a pause leaves
\* it unchanged, a resume adds now - lastPausedAt, and after the resume the
\* rental is active and not paused: its status is Active, or Overdue when
\* the resume comes after endTime.
C9_PausedDurationAccounting ==
    [][/\ PausedDurationAccounting
       /\ (tx'.op = "resumeRental" /\ outcome'.reason = "ok")
            => /\ activeRental'.isActive /\ ~activeRental'.isPaused
               /\ statusOf(activeRental', now')
                    = IF now' > activeRental'.endTime THEN "Overdue"
                      ELSE "Active"]_vars

C9_Witness ==
    /\ Succeeded("resumeRental")
    /\ activeRental.pausedDuration > now - activeRental.lastPausedAt
    /\ now > activeRental.lastPausedAt
    /\ getStatus = "Active"

\* C10: pauseRental, resumeRental and returnEquipment called by an account
\* other than the renter are rejected, leave the record and the balance
\* unchanged and pay nobody.
C10_RenterOnly ==
    \A s \in Accounts \ {activeRental.renter} :
        /\ pauseEffect(s).outcome.reason # "ok" /\ Untouched(pauseEffect(s))
        /\ resumeEffect(s).outcome.reason # "ok" /\ Untouched(resumeEffect(s))
        /\ \A f \in ReturnRefusers(s) :
             /\ returnEffect(s, f).outcome.reason # "ok"
             /\ Untouched(returnEffect(s, f))

C10_Witness ==
    /\ tx.op = "returnEquipment"
    /\ outcome.reason = "Not renter"
    /\ activeRental.isActive
    /\ balance > 0

\* C11: emergencyWithdraw() succeeds only for the owner while no rental is
\* active; on success the whole held balance goes to the owner and the
\* rental record is unchanged; while a rental is active it is rejected (the
\* owner with "Active rental exists") and the deposit stays in the contract.
C11_WithdrawOnlyWhenIdle ==
    \A s \in Accounts, f \in WithdrawRefusers :
        LET e == withdrawEffect(s, f)
        IN  /\ e.outcome.reason = "ok"
                 => /\ s = owner
                    /\ ~activeRental.isActive
                    /\ e.outcome.paidOwner = balance
                    /\ e.outcome.paidLessor = 0
                    /\ e.outcome.paidRenter = 0
                    /\ e.balance = 0
                    /\ e.rental = activeRental
            /\ activeRental.isActive
                 => /\ e.outcome.reason
                         = IF s = owner THEN "Active rental exists"
                           ELSE "Owner only"
                    /\ Untouched(e)

C11_Witness ==
    /\ tx.op = "emergencyWithdraw"
    /\ outcome.reason = "Active rental exists"
    /\ activeRental.isActive
    /\ balance > 0
    /\ balance = activeRental.deposit

\* the zone test on whole meters mLat, mLon that are the floors of the
\* offsets' lengths |d| * 111000 / 10^6
FloorMeters(d, m) ==
    m * 1000000 <= Abs(d) * 111000 /\ Abs(d) * 111000 < (m + 1) * 1000000

\* C12: the zone test is true at the zone centre for every radius, 0
\* included; true when the computed squared distance equals radius squared;
\* and false exactly when the computed squared distance exceeds radius
\* squared.
C12_ZoneTestInclusive ==
    /\ _withinGeoZone(centerLat, centerLon)
    /\ \A p \in ZonePositions : \A mLat, mLon \in 0..ZoneMeters :
         (FloorMeters(p[1] - centerLat, mLat) /\ FloorMeters(p[2] - centerLon, mLon))
           => /\ mLat * mLat + mLon * mLon = radius * radius
                   => _withinGeoZone(p[1], p[2])
              /\ ~_withinGeoZone(p[1], p[2])
                   <=> mLat * mLat + mLon * mLon > radius * radius

C12_Witness ==
    /\ Succeeded("rent")
    /\ radius = 0
    /\ activeRental.isActive

\* C13 as stated: getStatus() is Available exactly when no rental is active
\* and Overdue for every rental that is active and past its endTime.
C13_Original ==
    /\ (getStatus = "Available") <=> ~activeRental.isActive
    /\ (activeRental.isActive /\ now > activeRental.endTime)
         => getStatus = "Overdue"

\* C13 amended: getStatus() is a function of the record and the time; it is
\* Available exactly when no rental is active, Paused for every active
\* paused rental (past endTime or not), Overdue exactly for an active,
\* unpaused rental past its endTime, and Active otherwise.
C13_StatusDerived ==
    /\ getStatus \in {"Available", "Active", "Paused", "Overdue"}
    /\ (getStatus = "Available") <=> ~activeRental.isActive
    /\ (getStatus = "Paused")
         <=> (activeRental.isActive /\ activeRental.isPaused)
    /\ (getStatus = "Overdue")
         <=> /\ activeRental.isActive
             /\ ~activeRental.isPaused
             /\ now > activeRental.endTime

C13_Witness ==
    /\ activeRental.isActive
    /\ activeRental.isPaused
    /\ now > activeRental.endTime
    /\ getStatus = "Paused"

\* the submitted, unsettled transactions of a kind
InFlight(kind) ==
    {i \in DOMAIN inflight :
        inflight[i].kind = kind /\ inflight[i].stage = "sent"}

\* the pauseRental() transactions of the position tick among them
AutoPauses(seq) ==
    {i \in DOMAIN seq : seq[i] = Sent("pauseRental", "tick", 0, center)}

\* C14: the position tick submits pauseRental() only while no zone exit is
\* being handled (forcedPauseReason is null) and marks the exit as handled
\* with it; from then until forcedPauseReason is cleared no tick submits a
\* second one, however many ticks fire before the first is settled.
C14_OnePausePerZoneExit ==
    [][Cardinality(AutoPauses(inflight')) > Cardinality(AutoPauses(inflight))
         => /\ forcedPauseReason = "null"
            /\ forcedPauseReason' = "zone"
            /\ inflight' = Append(inflight, Sent("pauseRental", "tick", 0, center))
      ]_vars

C14_Witness ==
    /\ ticked = "frozen"
    /\ forcedPauseReason = "zone"
    /\ Cardinality(AutoPauses(inflight)) = 1
    /\ rental.isActive
    /\ ~rental.isPaused

\* the forced pause is confirmed and the position is inside the zone
insideNow == ~outsideZone(coordinates)

BackInZoneWhilePaused ==
    /\ getStatus = "Paused"
    /\ forcedPauseReason = "zone"
    /\ insideNow

\* C15: once the forced pause is confirmed (ledger status Paused,
\* forcedPauseReason "zone") and the position is inside the zone again, the
\* client resumes the rental without a click: the ledger rental eventually
\* is no longer paused.
C15_AutoResume == BackInZoneWhilePaused ~> (getStatus # "Paused")

\* C16: the client never has two pauseRental() or two resumeRental()
\* transactions in flight at the same time.
C16_OneInFlight ==
    /\ Cardinality(InFlight("pauseRental")) <= 1
    /\ Cardinality(InFlight("resumeRental")) <= 1

\* the automatic pauseRental() i fails: it leaves the transactions in
\* flight and the ledger record is as before
AutoPauseFailed(i) ==
    /\ i \in AutoPauses(inflight)
    /\ inflight' = Remove(inflight, i)
    /\ activeRental' = activeRental

\* C17: when the automatic pauseRental() of a zone exit fails, the local
\* pause flag is false and forcedPauseReason is null afterwards.
C17_AutoPauseRolledBack ==
    [][\A i \in DOMAIN inflight :
          AutoPauseFailed(i)
            => ~rental'.isPaused /\ forcedPauseReason' = "null"]_vars

\* C18: when handlePause ends in its catch block, the local pause flag is
\* what it was before the click (paused before a resume, not paused before
\* a pause) and equals the ledger's isPaused.
C18_ManualFailureRestores ==
    [][\A i \in DOMAIN inflight :
          (/\ inflight[i].origin = "click"
           /\ inflight[i].kind \in {"pauseRental", "resumeRental"}
           /\ handlePauseCatch(i))
            => /\ rental'.isPaused = (inflight[i].kind = "resumeRental")
               /\ rental'.isPaused = activeRental'.isPaused]_vars

\* C19: after a status poll that succeeds while no transaction is in
\* flight (and no event is still to be delivered), the local pause flag
\* equals the ledger's isPaused and contractStatus equals the status the
\* ledger's record gives.
C19_PollConverges ==
    [][(pollTick(TRUE) /\ inflight = <<>> /\ events = <<>>)
         => /\ rental'.isPaused = activeRental'.isPaused
            /\ contractStatus' = adjustedStatusOf(activeRental', now')]_vars

\* C20: when forcedPauseReason goes from "zone" to null, the ledger rental
\* is not paused (a resumeRental() has been confirmed).
C20_ClearedAfterResume ==
    [][(forcedPauseReason = "zone" /\ forcedPauseReason' = "null")
         => ~(activeRental'.isActive /\ activeRental'.isPaused)]_vars

\* C21: a position tick adds exactly one to the local timer when
\* contractStatus is "Active" and the rental is not paused locally, and
\* leaves it as it is otherwise; the tick does not touch the ledger, and
\* what a transaction does to the ledger is given by the transaction and
\* the ledger's own state, of which the timer is no part.
C21_TimerCountsActiveTicks ==
    [][/\ positionTick
          => /\ rental'.timer
                  = IF contractStatus = "Active" /\ ~rental.isPaused
                    THEN rental.timer + 1 ELSE rental.timer
             /\ UNCHANGED ledgerVars
       /\ (activeRental' # activeRental \/ balance' # balance)
          => \E refuse \in {ZeroAddress, lessor} :
                LET e == effectOf(inflight[FirstSent], refuse)
                IN  activeRental' = e.rental /\ balance' = e.balance
      ]_vars

C21_Witness ==
    /\ ticked = "pauseRental"
    /\ rental.timer = 1
    /\ rental.isPaused
    /\ contractStatus = "Active"

\* C22: while returnEquipment() executes its transfers the rental is
\* already inactive, so a returnEquipment() the recipient calls during a
\* transfer is rejected with "No active rental" and changes nothing; what
\* has been paid and what is still held add up to the deposit; a call that
\* ends with a failed transfer leaves the rental active and the deposit
\* held, one that succeeds has paid out the deposit exactly.
C22_DeactivatedBeforeTransfers ==
    /\ Executing
         => /\ ~activeRental.isActive
            /\ balance + tx.paid = activeRental.deposit
    /\ (Executing /\ tx.pc \in {"inLessor", "inRenter"})
         => LET e == nestedEffect("returnEquipment")
            IN  /\ e.outcome.reason = "No active rental"
                /\ Untouched(e)
    /\ (~Executing /\ tx.op = "returnEquipment")
         => /\ outcome.reason = "Transfer failed"
                 => /\ activeRental.isActive
                    /\ balance = activeRental.deposit
            /\ outcome.reason = "ok"
                 => /\ ~activeRental.isActive
                    /\ outcome.paidLessor + outcome.paidRenter
                         = activeRental.deposit
                    /\ balance = 0

C22_Witness ==
    /\ Executing
    /\ tx.pc = "inRenter"
    /\ tx.reentered = "returnEquipment"
    /\ outcome.reason = "No active rental"
    /\ tx.amountDue > 0
    /\ balance = 0

\* C23: the status fetchAdjustedStatus() derives from the record and
\* calculateUsedTime() is the ledger's getStatus(), in every state of the
\* ledger and at every time.
C23_ClientStatusIsLedgerStatus == fetchAdjustedStatus = getStatus

\* C24: for every position and zone the client's zone test (position tick
\* and startRental) answers as the ledger's _withinGeoZone.
C24_SameZoneTest ==
    \A p \in ZonePositions : ~outsideZone(p) <=> _withinGeoZone(p[1], p[2])

\* C25: while the wallet is disconnected no position tick fires and no
\* transaction is submitted.
C25_QuietWhileDisconnected ==
    [][~wallet.connected
         => /\ ~positionTick
            /\ Len(inflight') <= Len(inflight)]_vars

\* C27: the answer of a status poll that read the ledger before a
\* transition the client has since seen confirmed (no transaction of the
\* client is unconfirmed and the record is no longer the one read) does not
\* replace contractStatus.
C27_NoStaleOverwrite ==
    [][(/\ reading # NoReading
        /\ reading' = NoReading
        /\ inflight = <<>>
        /\ reading.record # activeRental)
         => contractStatus' = contractStatus]_vars

\* C26: the held balance is the deposit of the active rental, and zero when
\* no rental is active; every successful emergencyWithdraw() transfers zero.
C26_FundsConserved ==
    /\ balance = IF activeRental.isActive THEN activeRental.deposit ELSE 0
    /\ \A s \in Accounts, f \in WithdrawRefusers :
         LET e == withdrawEffect(s, f)
         IN  e.outcome.reason = "ok"
               => /\ e.outcome.paidOwner = 0
                  /\ e.outcome.event[3] = 0
                  /\ e.balance = balance

C26_Witness ==
    /\ Succeeded("emergencyWithdraw")
    /\ outcome.paidOwner = 0
    /\ activeRental.deposit > 0
    /\ ~activeRental.isActive

====
